---- MODULE Spec2Model ----
(***************************************************************************)
(* Model of the demo marketplace backend (src/main.py): the Cart class,    *)
(* the SessionHandler registry, the product table of Database and the      *)
(* request handlers that use them.                                         *)
(*                                                                         *)
(* Every handler is an `async def` without an await, so the event loop     *)
(* runs it from its first line to its return without interleaving: one     *)
(* handler is one action.                                                  *)
(*                                                                         *)
(* A Python dict is a function whose DOMAIN is the set of its keys; the    *)
(* insertion order of a dict is not modelled (no handler branches on it).  *)
(* A raised exception is a value of the result ("KeyError", ...), and      *)
(* "None" means that nothing was raised.                                   *)
(***************************************************************************)
EXTENDS Integers, Sequences, FiniteSets, TLC

\* ------------------------------------------------------------------ bounds
MaxTokens == 2      \* values os.urandom(8).hex() is drawn from
MaxProducts == 2    \* product IDs 1..MaxProducts
MaxQty == 1         \* cap on a quantity stored in a session's cart, and on
                    \* the |quantity| of a request
MaxCount == 2       \* cap on a quantity of the Cart driven directly, and on
                    \* the num of a call
MaxPrice == 1       \* prices 0..MaxPrice

Tokens == 1..MaxTokens
ProductIDs == 1..MaxProducts
Counts == 0..MaxCount
Prices == 0..MaxPrice

VARIABLES
    cart,         \* Cart.products of a Cart object driven directly (CartSpec)
    calls,        \* the last two calls made on that Cart, latest first
    userTokens,   \* SessionHandler.userTokens
    adminTokens,  \* SessionHandler.adminTokens
    carts,        \* SessionHandler.carts: token -> Cart.products
    productDB,    \* Database.productDB.data: product ID -> price
    request,      \* the last request served
    response,     \* what its handler returned or raised
    prevLogin,    \* the login served just before it, when both were logins
    race          \* two cartAdd requests in flight, line by line (RaceSpec)

vars == <<cart, calls, userTokens, adminTokens, carts, productDB, request,
          response, prevLogin, race>>

cartVars == <<cart, calls>>
appVars == <<userTokens, adminTokens, carts, productDB, request, response,
             prevLogin, race>>

\* ------------------------------------------------------------------- Cart
\* dict(): Cart.__init__
EmptyDict == [k \in {} |-> 0]

\* del d[k]
DictDel(d, k) == [x \in (DOMAIN d) \ {k} |-> d[x]]

\* d[k] = v
DictSet(d, k, v) == [x \in (DOMAIN d) \cup {k} |-> IF x = k THEN v ELSE d[x]]

\* Cart.addItem: the products after the call (it never raises)
addItemOverwrites(products, id, num) == DictSet(products, id, num)

addItem(products, id, num) ==
    LET p0 == IF id \notin DOMAIN products THEN DictSet(products, id, 0)
              ELSE products
    IN  DictSet(p0, id, p0[id] + num)

\* Cart.removeItem: the exception raised and the products after the call
removeItemSkipsDelete(products, id, num) ==
    IF id \notin DOMAIN products
    THEN [exc |-> "KeyError", products |-> products]
    ELSE IF products[id] < num
    THEN [exc |-> "ValueError", products |-> products]
    ELSE [exc |-> "None", products |-> DictSet(products, id, products[id] - num)]

removeItemClamps(products, id, num) ==
    IF id \notin DOMAIN products
    THEN [exc |-> "KeyError", products |-> products]
    ELSE IF products[id] < num
    THEN [exc |-> "ValueError", products |-> DictDel(products, id)]
    ELSE LET p1 == DictSet(products, id, products[id] - num)
         IN  [exc |-> "None",
              products |-> IF p1[id] = 0 THEN DictDel(p1, id) ELSE p1]

removeItem(products, id, num) ==
    IF id \notin DOMAIN products
    THEN [exc |-> "KeyError", products |-> products]
    ELSE IF products[id] < num
    THEN [exc |-> "ValueError", products |-> products]
    ELSE LET p1 == DictSet(products, id, products[id] - num)
         IN  [exc |-> "None",
              products |-> IF p1[id] = 0 THEN DictDel(p1, id) ELSE p1]

\* Cart.getCart: one CartItem per key of the dict
getCart(products) ==
    {[id |-> i, quantity |-> products[i]] : i \in DOMAIN products}

\* The last two calls, latest first
Remember(call) == IF calls = <<>> THEN <<call>> ELSE <<call, calls[1]>>

\* A caller runs cart.addItem(id, num), num >= 0
CallAddItem(id, num) ==
    /\ (IF id \in DOMAIN cart THEN cart[id] ELSE 0) + num <= MaxCount
    /\ cart' = addItem(cart, id, num)
    /\ calls' = Remember([op |-> "addItem", id |-> id, num |-> num,
                          exc |-> "None", before |-> cart])
    /\ UNCHANGED appVars

\* A caller runs cart.removeItem(id, num), num >= 0
CallRemoveItem(id, num) ==
    LET r == removeItem(cart, id, num)
    IN  /\ cart' = r.products
        /\ calls' = Remember([op |-> "removeItem", id |-> id, num |-> num,
                              exc |-> r.exc, before |-> cart])
        /\ UNCHANGED appVars

\* ------------------------------------------------------- configuration
\* creds.json, read once by SessionHandler.__init__: the credential records
\* in list order. The third record repeats the first one's email and
\* password with the other role.
credentials ==
    << [email |-> "a@x.com", password |-> "pw", isAdmin |-> FALSE],
       [email |-> "root@x.com", password |-> "pw", isAdmin |-> TRUE],
       [email |-> "a@x.com", password |-> "pw", isAdmin |-> TRUE] >>

\* modes.json, read once by SessionHandler.__init__: PortalSchema.modes
paymentModes == [modes |-> [upi |-> "UPI", card |-> "Credit Card"]]

\* What a request may carry
Emails == {"a@x.com", "root@x.com"}
Passwords == {"pw", "wrong"}
SessionIDs == Tokens
ModeKeys == {"upi", "card", "cash"}
Quantities == (0 - MaxQty)..MaxQty

\* The blank string login returns; a token is 16 hexadecimal digits, never
\* blank, and is numbered 1..MaxTokens here
EmptyToken == 0

\* --------------------------------------------------------- SessionHandler
\* The for loop of login: the index of the first record that matches, 0 if
\* the loop ends without a match
RECURSIVE firstMatchFrom(_, _, _)
firstMatchFrom(i, email, password) ==
    IF i > Len(credentials) THEN 0
    ELSE IF credentials[i].email = email /\ credentials[i].password = password
    THEN i
    ELSE firstMatchFrom(i + 1, email, password)

loginHonoursEveryMatch(uT, aT, email, password, sessionToken) ==
    LET hits == {i \in 1..Len(credentials) :
                    /\ credentials[i].email = email
                    /\ credentials[i].password = password}
    IN  IF hits = {}
        THEN [ret |-> EmptyToken, userTokens |-> uT, adminTokens |-> aT]
        ELSE [ret |-> sessionToken,
              userTokens |-> IF \E i \in hits : ~credentials[i].isAdmin
                             THEN uT \cup {sessionToken} ELSE uT,
              adminTokens |-> IF \E i \in hits : credentials[i].isAdmin
                              THEN aT \cup {sessionToken} ELSE aT]

\* SessionHandler.login. sessionToken is the value urandom(8).hex() gives in
\* the iteration that matches: any token, whether or not it was given out
\* before (login compares it with nothing).
loginIssuesOnMismatch(uT, aT, email, password, sessionToken) ==
    LET i == firstMatchFrom(1, email, password)
    IN  IF i = 0
        THEN [ret |-> EmptyToken, userTokens |-> uT \cup {sessionToken},
              adminTokens |-> aT]
        ELSE IF credentials[i].isAdmin = FALSE
        THEN [ret |-> sessionToken, userTokens |-> uT \cup {sessionToken},
              adminTokens |-> aT]
        ELSE [ret |-> sessionToken, userTokens |-> uT,
              adminTokens |-> aT \cup {sessionToken}]

login(uT, aT, email, password, sessionToken) ==
    LET i == firstMatchFrom(1, email, password)
    IN  IF i = 0
        THEN [ret |-> EmptyToken, userTokens |-> uT, adminTokens |-> aT]
        ELSE IF credentials[i].isAdmin = FALSE
        THEN [ret |-> sessionToken, userTokens |-> uT \cup {sessionToken},
              adminTokens |-> aT]
        ELSE [ret |-> sessionToken, userTokens |-> uT,
              adminTokens |-> aT \cup {sessionToken}]

\* --------------------------------------------------------------- Database
\* Only the price of a Product is kept: its name and category are payload
\* that none of the handlers below reads.

\* Database.getProduct: the stored product, or the class Product itself when
\* the ID is unknown (line 176 binds the class, not an instance of it)
getProduct(product) ==
    IF product \in DOMAIN productDB
    THEN [kind |-> "instance", price |-> productDB[product]]
    ELSE [kind |-> "class"]

\* Database.newProduct
dbNewProduct(id, price) ==
    IF id \in DOMAIN productDB THEN productDB ELSE DictSet(productDB, id, price)

\* Database.updateProduct
dbUpdateProduct(id, price) ==
    IF id \in DOMAIN productDB THEN DictSet(productDB, id, price) ELSE productDB

\* Database.deleteProduct: the returned bool and the table after the call
dbDeleteProduct(id) ==
    IF id \notin DOMAIN productDB
    THEN [ret |-> FALSE, data |-> productDB]
    ELSE [ret |-> TRUE, data |-> DictDel(productDB, id)]

\* ----------------------------------------------------------------- routes
NoLogin == [kind |-> "none"]
NotAuthorized == [kind |-> "NotAuthorized"]
UserNotFound == [kind |-> "UserNotFound"]
Raised(exc) == [kind |-> "exception", exc |-> exc]

\* The login served by the last request, for the login that follows it
LoginJustServed ==
    IF request.handler = "getSessionID" /\ response.kind = "sessionID"
    THEN [kind |-> "login", email |-> request.email,
          password |-> request.password, sessionID |-> response.sessionID]
    ELSE NoLogin

\* GET /login/{email}/{password}
getSessionIDNoCart(email, password, sessionToken) ==
    LET r == login(userTokens, adminTokens, email, password, sessionToken)
    IN  /\ userTokens' = r.userTokens
        /\ adminTokens' = r.adminTokens
        /\ carts' = carts
        /\ response' = IF r.ret = EmptyToken
                       THEN [kind |-> "AuthenticationError"]
                       ELSE [kind |-> "sessionID", sessionID |-> r.ret]
        /\ request' = [handler |-> "getSessionID", email |-> email,
                       password |-> password]
        /\ prevLogin' = LoginJustServed
        /\ UNCHANGED <<productDB, cartVars, race>>

getSessionID(email, password, sessionToken) ==
    LET r == login(userTokens, adminTokens, email, password, sessionToken)
    IN  /\ userTokens' = r.userTokens
        /\ adminTokens' = r.adminTokens
        /\ IF r.ret = EmptyToken
           THEN /\ carts' = carts
                /\ response' = [kind |-> "AuthenticationError"]
           ELSE /\ carts' = DictSet(carts, r.ret, EmptyDict)
                /\ response' = [kind |-> "sessionID", sessionID |-> r.ret]
        /\ request' = [handler |-> "getSessionID", email |-> email,
                       password |-> password]
        /\ prevLogin' = LoginJustServed
        /\ UNCHANGED <<productDB, cartVars, race>>

\* POST /new/product/{sessionID}
newProduct(sessionID, id, price) ==
    /\ IF sessionID \notin adminTokens
       THEN /\ productDB' = productDB
            /\ response' = NotAuthorized
       ELSE /\ productDB' = dbNewProduct(id, price)
            /\ response' = [kind |-> "product", price |-> productDB'[id]]
    /\ request' = [handler |-> "newProduct", sessionID |-> sessionID,
                   product |-> id, price |-> price]
    /\ prevLogin' = NoLogin
    /\ UNCHANGED <<userTokens, adminTokens, carts, cartVars, race>>

\* POST /update/product/{sessionID}; for an unknown ID the handler returns
\* the class Product that getProduct gives back
updateProduct(sessionID, id, price) ==
    /\ IF sessionID \notin adminTokens
       THEN /\ productDB' = productDB
            /\ response' = NotAuthorized
       ELSE /\ productDB' = dbUpdateProduct(id, price)
            /\ response' = IF id \in DOMAIN productDB
                           THEN [kind |-> "product", price |-> price]
                           ELSE [kind |-> "class"]
    /\ request' = [handler |-> "updateProduct", sessionID |-> sessionID,
                   product |-> id, price |-> price]
    /\ prevLogin' = NoLogin
    /\ UNCHANGED <<userTokens, adminTokens, carts, cartVars, race>>

\* POST /delete/product/{product}/{sessionID}
deleteProduct(product, sessionID) ==
    /\ IF sessionID \notin adminTokens
       THEN /\ productDB' = productDB
            /\ response' = NotAuthorized
       ELSE /\ productDB' = dbDeleteProduct(product).data
            /\ response' = [kind |-> "bool", ret |-> dbDeleteProduct(product).ret]
    /\ request' = [handler |-> "deleteProduct", sessionID |-> sessionID,
                   product |-> product]
    /\ prevLogin' = NoLogin
    /\ UNCHANGED <<userTokens, adminTokens, carts, cartVars, race>>

\* GET /cart/get/{sessionID}
cartGet(sessionID) ==
    /\ response' = IF sessionID \in DOMAIN carts
                   THEN [kind |-> "cart", items |-> getCart(carts[sessionID])]
                   ELSE UserNotFound
    /\ request' = [handler |-> "cartGet", sessionID |-> sessionID]
    /\ prevLogin' = NoLogin
    /\ UNCHANGED <<userTokens, adminTokens, carts, productDB, cartVars, race>>

\* POST /cart/add/: the response and the carts after the handler. Nothing in
\* the handler catches what removeItem raises, and sessions.carts[...] raises
\* KeyError for a token that has no cart.
cartAddZeroRemoves(sessionID, product, quantity) ==
    IF sessionID \notin userTokens
    THEN [response |-> UserNotFound, carts |-> carts]
    ELSE IF quantity > 0
    THEN LET p == addItem(carts[sessionID], product, quantity)
         IN  [response |-> [kind |-> "cart", items |-> getCart(p)],
              carts |-> DictSet(carts, sessionID, p)]
    ELSE LET r == removeItem(carts[sessionID], product, 0 - quantity)
         IN  IF r.exc # "None"
             THEN [response |-> Raised(r.exc), carts |-> carts]
             ELSE [response |-> [kind |-> "cart", items |-> getCart(r.products)],
                   carts |-> DictSet(carts, sessionID, r.products)]

cartAddNoRoleCheck(sessionID, product, quantity) ==
    IF sessionID \notin DOMAIN carts
    THEN [response |-> UserNotFound, carts |-> carts]
    ELSE IF quantity >= 0
    THEN LET p == addItem(carts[sessionID], product, quantity)
         IN  [response |-> [kind |-> "cart", items |-> getCart(p)],
              carts |-> DictSet(carts, sessionID, p)]
    ELSE LET r == removeItem(carts[sessionID], product, 0 - quantity)
         IN  IF r.exc # "None"
             THEN [response |-> Raised(r.exc), carts |-> carts]
             ELSE [response |-> [kind |-> "cart", items |-> getCart(r.products)],
                   carts |-> DictSet(carts, sessionID, r.products)]

cartAddResult(sessionID, product, quantity) ==
    IF sessionID \notin userTokens
    THEN [response |-> UserNotFound, carts |-> carts]
    ELSE IF sessionID \notin DOMAIN carts
    THEN [response |-> Raised("KeyError"), carts |-> carts]
    ELSE IF quantity >= 0
    THEN LET p == addItem(carts[sessionID], product, quantity)
         IN  [response |-> [kind |-> "cart", items |-> getCart(p)],
              carts |-> DictSet(carts, sessionID, p)]
    ELSE LET r == removeItem(carts[sessionID], product, 0 - quantity)
         IN  IF r.exc # "None"
             THEN [response |-> Raised(r.exc),
                   carts |-> DictSet(carts, sessionID, r.products)]
             ELSE [response |-> [kind |-> "cart", items |-> getCart(r.products)],
                   carts |-> DictSet(carts, sessionID, r.products)]

cartAdd(sessionID, product, quantity) ==
    /\ response' = cartAddResult(sessionID, product, quantity).response
    /\ carts' = cartAddResult(sessionID, product, quantity).carts
    /\ request' = [handler |-> "cartAdd", sessionID |-> sessionID,
                   product |-> product, quantity |-> quantity]
    /\ prevLogin' = NoLogin
    /\ UNCHANGED <<userTokens, adminTokens, productDB, cartVars, race>>

\* GET /cart/modes/{sessionID}
cartModes(sessionID) ==
    /\ response' = IF sessionID \notin userTokens THEN NotAuthorized
                   ELSE [kind |-> "Supported", modes |-> paymentModes.modes]
    /\ request' = [handler |-> "cartModes", sessionID |-> sessionID]
    /\ prevLogin' = NoLogin
    /\ UNCHANGED <<userTokens, adminTokens, carts, productDB, cartVars, race>>

\* The for loop of cartCheckout: netTotal over the items of one cart
RECURSIVE netTotalOf(_, _)
netTotalOf(products, ids) ==
    IF ids = {} THEN 0
    ELSE LET item == CHOOSE i \in ids : TRUE
         IN  getProduct(item).price * products[item]
             + netTotalOf(products, ids \ {item})

\* GET /cart/checkout/{mode}/{sessionID}: the response, and in `reads` the
\* tables the handler has consulted, in the order it consulted them.
\* getProduct gives the class Product for an ID that is not in the table, and
\* the class has no attribute `price` (pydantic keeps field defaults out of
\* the class namespace), so `.price` raises AttributeError.
cartCheckoutModeFirst(mode, sessionID) ==
    IF mode \notin DOMAIN paymentModes.modes
    THEN [kind |-> "UnknownPaymentMode", known |-> paymentModes,
          reads |-> <<"paymentModes">>]
    ELSE IF sessionID \notin userTokens
    THEN [kind |-> "NotAuthorized", reads |-> <<"paymentModes", "userTokens">>]
    ELSE [kind |-> "NoAmountPayable",
          reads |-> <<"paymentModes", "userTokens">>]

cartCheckoutTotalFirst(mode, sessionID) ==
    IF sessionID \notin userTokens
    THEN [kind |-> "NotAuthorized", reads |-> <<"userTokens">>]
    ELSE LET products == carts[sessionID]
             all == <<"userTokens", "carts", "productDB", "paymentModes">>
         IN  IF \E item \in DOMAIN products : getProduct(item).kind = "class"
             THEN [kind |-> "exception", exc |-> "AttributeError",
                   reads |-> SubSeq(all, 1, 3)]
             ELSE LET netTotal == netTotalOf(products, DOMAIN products)
                  IN  IF netTotal = 0
                      THEN [kind |-> "NoAmountPayable",
                            reads |-> SubSeq(all, 1, 3)]
                      ELSE IF mode \notin DOMAIN paymentModes.modes
                      THEN [kind |-> "UnknownPaymentMode",
                            known |-> paymentModes, reads |-> all]
                      ELSE [kind |-> "redirect",
                            portal |-> paymentModes.modes[mode],
                            netTotal |-> netTotal, reads |-> all]

cartCheckoutResult(mode, sessionID) ==
    IF sessionID \notin userTokens
    THEN [kind |-> "NotAuthorized", reads |-> <<"userTokens">>]
    ELSE IF mode \notin DOMAIN paymentModes.modes
    THEN [kind |-> "UnknownPaymentMode", known |-> paymentModes,
          reads |-> <<"userTokens", "paymentModes">>]
    ELSE IF sessionID \notin DOMAIN carts
    THEN [kind |-> "exception", exc |-> "KeyError",
          reads |-> <<"userTokens", "paymentModes", "carts">>]
    ELSE LET products == carts[sessionID]
             all == <<"userTokens", "paymentModes", "carts", "productDB">>
         IN  IF \E item \in DOMAIN products : getProduct(item).kind = "class"
             THEN [kind |-> "exception", exc |-> "AttributeError",
                   reads |-> all]
             ELSE LET netTotal == netTotalOf(products, DOMAIN products)
                  IN  IF netTotal = 0
                      THEN [kind |-> "NoAmountPayable",
                            reads |-> IF products = EmptyDict
                                      THEN SubSeq(all, 1, 3) ELSE all]
                      ELSE [kind |-> "redirect",
                            portal |-> paymentModes.modes[mode],
                            netTotal |-> netTotal, reads |-> all]

cartCheckoutClearsCart(mode, sessionID) ==
    /\ response' = cartCheckoutResult(mode, sessionID)
    /\ carts' = IF response'.kind = "redirect"
                THEN DictSet(carts, sessionID, EmptyDict) ELSE carts
    /\ request' = [handler |-> "cartCheckout", mode |-> mode,
                   sessionID |-> sessionID]
    /\ prevLogin' = NoLogin
    /\ UNCHANGED <<userTokens, adminTokens, productDB, cartVars, race>>

cartCheckout(mode, sessionID) ==
    /\ response' = cartCheckoutResult(mode, sessionID)
    /\ request' = [handler |-> "cartCheckout", mode |-> mode,
                   sessionID |-> sessionID]
    /\ prevLogin' = NoLogin
    /\ UNCHANGED <<userTokens, adminTokens, carts, productDB, cartVars, race>>

\* ------------------------------------------- two cartAdd requests at once
\* Two cartAdd requests have arrived together. race.tasks[i] is request i:
\* its body, the line its coroutine stands at (pc), the value it has read
\* for `+=` / `-=` (tmp) and what it raised. race.order lists the requests in
\* the order the loop started them, race.before is the cart of session 1
\* when they arrived.
NoRace == [tasks |-> <<>>, order |-> <<>>, before |-> EmptyDict]
TaskIDs == {1, 2}
Idle == {"pending", "done"}

\* The event loop: cartAdd is an `async def` whose body has no await, so
\* once the loop has started it, no other coroutine runs before it returns
\* or raises.
mayRunAnyTime(i) == TRUE

mayRun(i) == \A j \in TaskIDs \ {i} : race.tasks[j].pc \in Idle

SetTask(i, pc, tmp, exc) ==
    race' = [race EXCEPT !.tasks[i] = [@ EXCEPT !.pc = pc, !.tmp = tmp,
                                                 !.exc = exc]]

RaceFrame == UNCHANGED <<userTokens, adminTokens, productDB, request,
                         response, prevLogin, cartVars>>

\* lines 363-369: the token test and the dispatch on the sign
RaceStart(i) ==
    LET t == race.tasks[i]
    IN  /\ mayRun(i)
        /\ t.pc = "pending"
        /\ race' = [race EXCEPT
                       !.order = Append(@, i),
                       !.tasks[i].pc =
                           IF t.sessionID \notin userTokens THEN "done"
                           ELSE IF t.quantity >= 0 THEN "addItem:34"
                           ELSE "removeItem:53"]
        /\ UNCHANGED carts
        /\ RaceFrame

\* lines 34-35: if id not in self.products: self.products[id] = 0
RaceAddInsert(i) ==
    LET t == race.tasks[i]
        products == carts[t.sessionID]
    IN  /\ mayRun(i)
        /\ t.pc = "addItem:34"
        /\ carts' = IF t.product \notin DOMAIN products
                    THEN DictSet(carts, t.sessionID,
                                 DictSet(products, t.product, 0))
                    ELSE carts
        /\ SetTask(i, "read", t.tmp, t.exc)
        /\ RaceFrame

\* lines 53-57: the two tests of removeItem
RaceRemoveCheck(i) ==
    LET t == race.tasks[i]
        products == carts[t.sessionID]
    IN  /\ mayRun(i)
        /\ t.pc = "removeItem:53"
        /\ IF t.product \notin DOMAIN products
           THEN SetTask(i, "done", t.tmp, "KeyError")
           ELSE IF products[t.product] < 0 - t.quantity
           THEN SetTask(i, "done", t.tmp, "ValueError")
           ELSE SetTask(i, "read", t.tmp, t.exc)
        /\ UNCHANGED carts
        /\ RaceFrame

\* lines 37 and 59, first half: self.products[id] is read
RaceRead(i) ==
    LET t == race.tasks[i]
        products == carts[t.sessionID]
    IN  /\ mayRun(i)
        /\ t.pc = "read"
        /\ IF t.product \notin DOMAIN products
           THEN SetTask(i, "done", t.tmp, "KeyError")
           ELSE SetTask(i, "write", products[t.product], t.exc)
        /\ UNCHANGED carts
        /\ RaceFrame

\* lines 37 and 59, second half: the sum or difference is stored
RaceWrite(i) ==
    LET t == race.tasks[i]
        products == carts[t.sessionID]
    IN  /\ mayRun(i)
        /\ t.pc = "write"
        /\ carts' = DictSet(carts, t.sessionID,
                            DictSet(products, t.product, t.tmp + t.quantity))
        /\ SetTask(i, IF t.quantity >= 0 THEN "return" ELSE "removeItem:61",
                   t.tmp, t.exc)
        /\ RaceFrame

\* lines 61-62: if self.products[id] == 0: del self.products[id]
RaceRemoveDelete(i) ==
    LET t == race.tasks[i]
        products == carts[t.sessionID]
    IN  /\ mayRun(i)
        /\ t.pc = "removeItem:61"
        /\ IF t.product \notin DOMAIN products
           THEN /\ UNCHANGED carts
                /\ SetTask(i, "done", t.tmp, "KeyError")
           ELSE /\ carts' = IF products[t.product] = 0
                            THEN DictSet(carts, t.sessionID,
                                         DictDel(products, t.product))
                            ELSE carts
                /\ SetTask(i, "return", t.tmp, t.exc)
        /\ RaceFrame

\* line 371: the handler returns
RaceReturn(i) ==
    /\ mayRun(i)
    /\ race.tasks[i].pc = "return"
    /\ SetTask(i, "done", race.tasks[i].tmp, race.tasks[i].exc)
    /\ UNCHANGED carts
    /\ RaceFrame

\* One line of request i
RaceStep(i) ==
    \/ RaceStart(i)
    \/ RaceAddInsert(i)
    \/ RaceRemoveCheck(i)
    \/ RaceRead(i)
    \/ RaceWrite(i)
    \/ RaceRemoveDelete(i)
    \/ RaceReturn(i)

\* What one cartAdd run alone does to the cart of its session
cartAddAlone(products, t) ==
    IF t.sessionID # 1 THEN products
    ELSE IF t.quantity >= 0 THEN addItem(products, t.product, t.quantity)
    ELSE removeItem(products, t.product, 0 - t.quantity).products

\* ---------------------------------------------------------- specification
\* products.json, read once by Database.connectToDatabase: any table over
\* the product IDs and prices of the model
Catalogues == UNION {[ids -> Prices] : ids \in SUBSET ProductIDs}

AppInit ==
    /\ userTokens = {}
    /\ adminTokens = {}
    /\ carts = EmptyDict
    /\ productDB \in Catalogues
    /\ request = [handler |-> "none"]
    /\ response = [kind |-> "none"]
    /\ prevLogin = NoLogin
    /\ race = NoRace

CartInit ==
    /\ cart = EmptyDict
    /\ calls = <<>>

Init == AppInit /\ CartInit

\* No stored quantity is driven past MaxQty
WithinMaxQty(sessionID, product, quantity) ==
    (/\ sessionID \in userTokens
     /\ sessionID \in DOMAIN carts
     /\ product \in DOMAIN carts[sessionID])
    => carts[sessionID][product] + quantity <= MaxQty

Next ==
    \/ \E email \in Emails, password \in Passwords, sessionToken \in Tokens :
          getSessionID(email, password, sessionToken)
    \/ \E sessionID \in SessionIDs, id \in ProductIDs, price \in Prices :
          newProduct(sessionID, id, price)
    \/ \E sessionID \in SessionIDs, id \in ProductIDs, price \in Prices :
          updateProduct(sessionID, id, price)
    \/ \E sessionID \in SessionIDs, product \in ProductIDs :
          deleteProduct(product, sessionID)
    \/ \E sessionID \in SessionIDs : cartGet(sessionID)
    \/ \E sessionID \in SessionIDs, product \in ProductIDs,
          quantity \in Quantities :
          /\ WithinMaxQty(sessionID, product, quantity)
          /\ cartAdd(sessionID, product, quantity)
    \/ \E sessionID \in SessionIDs : cartModes(sessionID)
    \/ \E sessionID \in SessionIDs, mode \in ModeKeys :
          cartCheckout(mode, sessionID)

\* The served application: requests arrive in any order, one at a time
Spec == Init /\ [][Next]_vars

CartNext ==
    \/ \E id \in ProductIDs, num \in Counts : CallAddItem(id, num)
    \/ \E id \in ProductIDs, num \in Counts : CallRemoveItem(id, num)

\* The carts a session can have built up, zero entries included
SessionCarts == UNION {[ids -> 0..MaxQty] : ids \in SUBSET ProductIDs}

RaceTasks ==
    [sessionID : SessionIDs, product : ProductIDs, quantity : Quantities,
     pc : {"pending"}, tmp : {0}, exc : {"None"}]

\* Session 1 is a logged-in user with some cart, and two cartAdd requests
\* arrive together
RaceInit ==
    /\ CartInit
    /\ userTokens = {1}
    /\ adminTokens = {}
    /\ carts \in [{1} -> SessionCarts]
    /\ productDB = EmptyDict
    /\ request = [handler |-> "none"]
    /\ response = [kind |-> "none"]
    /\ prevLogin = NoLogin
    /\ \E t1 \in RaceTasks, t2 \in RaceTasks :
          race = [tasks |-> <<t1, t2>>, order |-> <<>>, before |-> carts[1]]

RaceNext == \E i \in TaskIDs : RaceStep(i)

\* Two cartAdd requests served by the event loop, each line a step
RaceSpec == RaceInit /\ [][RaceNext]_vars

\* The Cart is driven on its own: no session, an empty product table
CartOnlyInit == AppInit /\ CartInit /\ productDB = EmptyDict

\* A freshly created Cart under any sequence of addItem and removeItem calls
CartSpec == CartOnlyInit /\ [][CartNext]_vars

\* ------------------------------------------------- the Cart under CartSpec
LastCall == calls[1]
HasCall == Len(calls) >= 1
HasTwoCalls == Len(calls) = 2

\* C1: after any sequence of addItem and removeItem calls with count >= 0 on
\* a fresh Cart, every product ID present in the mapping has a quantity
\* strictly greater than 0.
C1_NoZeroOrNegativeQuantity == \A id \in DOMAIN cart : cart[id] > 0

\* C3: removeItem(id, n) with id present and n greater than the stored
\* quantity raises ValueError and leaves the mapping as it was.
C3_InsufficientQuantityLeavesCart ==
    (/\ HasCall
     /\ LastCall.op = "removeItem"
     /\ LastCall.id \in DOMAIN LastCall.before
     /\ LastCall.num > LastCall.before[LastCall.id])
    => (LastCall.exc = "ValueError" /\ cart = LastCall.before)

C3_Witness ==
    /\ HasCall
    /\ LastCall.op = "removeItem"
    /\ LastCall.id \in DOMAIN LastCall.before
    /\ LastCall.before[LastCall.id] = 1
    /\ LastCall.num = 2
    /\ LastCall.exc = "ValueError"
    /\ cart = LastCall.before

\* C4: removeItem of a product that is not in the cart raises KeyError and
\* leaves the mapping as it was; a removeItem that takes the whole stored
\* quantity removes the product from the snapshot, and the next removeItem
\* of that product raises KeyError, not ValueError.
C4_UnknownProduct ==
    /\ (HasCall /\ LastCall.op = "removeItem"
           /\ LastCall.id \notin DOMAIN LastCall.before)
        => (LastCall.exc = "KeyError" /\ cart = LastCall.before)
    /\ (HasCall /\ LastCall.op = "removeItem" /\ LastCall.exc = "None"
           /\ LastCall.num = LastCall.before[LastCall.id])
        => (\A item \in getCart(cart) : item.id # LastCall.id)
    /\ (HasTwoCalls /\ calls[2].op = "removeItem" /\ calls[2].exc = "None"
           /\ calls[2].num = calls[2].before[calls[2].id]
           /\ LastCall.op = "removeItem" /\ LastCall.id = calls[2].id)
        => LastCall.exc = "KeyError"

C4_Witness ==
    /\ HasTwoCalls
    /\ calls[2].op = "removeItem" /\ calls[2].exc = "None"
    /\ calls[2].id \in DOMAIN calls[2].before
    /\ calls[2].before[calls[2].id] = 2 /\ calls[2].num = 2
    /\ LastCall.op = "removeItem" /\ LastCall.id = calls[2].id
    /\ LastCall.num = 1 /\ LastCall.exc = "KeyError"
    /\ getCart(cart) = {}

\* C5: a successful removeItem(id, n) followed at once by addItem(id, n)
\* leaves the mapping equal to the one before the removal.
C5_RemoveThenAddRestores ==
    (/\ HasTwoCalls
     /\ calls[2].op = "removeItem" /\ calls[2].exc = "None"
     /\ LastCall.op = "addItem"
     /\ LastCall.id = calls[2].id /\ LastCall.num = calls[2].num)
    => cart = calls[2].before

C5_Witness ==
    /\ HasTwoCalls
    /\ calls[2].op = "removeItem" /\ calls[2].exc = "None"
    /\ calls[2].num = 1 /\ calls[2].before[calls[2].id] = 2
    /\ DOMAIN calls[2].before = ProductIDs
    /\ LastCall.op = "addItem"
    /\ LastCall.id = calls[2].id /\ LastCall.num = 1
    /\ cart = calls[2].before

\* ------------------------------------------------ the routes under Spec
ServedLogin == request.handler = "getSessionID" /\ response.kind = "sessionID"

\* C2: no cartAdd request ends with an exception leaving the handler; every
\* failure of a cart mutation is returned as a response.
C2_CartAddNeverRaises ==
    request.handler = "cartAdd" => response.kind # "exception"

\* C6: a successful login returns a non-blank token that is in the role set
\* of the matching record (user for isAdmin = false, admin for isAdmin =
\* true) and not in the other role set.
C6_TokenInItsRoleSetOnly ==
    ServedLogin =>
        LET cred == credentials[firstMatchFrom(1, request.email,
                                               request.password)]
            token == response.sessionID
        IN  /\ token # EmptyToken
            /\ IF cred.isAdmin = FALSE
               THEN token \in userTokens /\ token \notin adminTokens
               ELSE token \in adminTokens /\ token \notin userTokens

\* C7: in every reachable state, no token is in both the user token set and
\* the admin token set.
C7_RoleSetsDisjoint == userTokens \cap adminTokens = {}

\* C8: two successful logins in a row with the same credentials return two
\* different tokens, both still valid, each bound to a cart of its own, the
\* new one empty.
C8_ConsecutiveLoginsDistinct ==
    (/\ prevLogin.kind = "login"
     /\ ServedLogin
     /\ request.email = prevLogin.email
     /\ request.password = prevLogin.password)
    => /\ response.sessionID # prevLogin.sessionID
       /\ {response.sessionID, prevLogin.sessionID}
             \subseteq (userTokens \cup adminTokens)
       /\ {response.sessionID, prevLogin.sessionID} \subseteq DOMAIN carts
       /\ carts[response.sessionID] = EmptyDict

\* C9: a login whose email and password match no credential record gets the
\* authentication error (no exception) and leaves the user token set, the
\* admin token set and the carts as they were.
C9_FailedLoginChangesNothing ==
    [][(/\ request'.handler = "getSessionID"
        /\ firstMatchFrom(1, request'.email, request'.password) = 0)
       => (/\ response'.kind = "AuthenticationError"
           /\ userTokens' = userTokens
           /\ adminTokens' = adminTokens
           /\ carts' = carts)]_vars

C9_Witness ==
    /\ request.handler = "getSessionID"
    /\ request.email = "a@x.com" /\ request.password = "wrong"
    /\ response.kind = "AuthenticationError"
    /\ userTokens # {} /\ adminTokens # {}
    /\ userTokens \cap adminTokens = {}
    /\ \E t \in userTokens : \E id \in DOMAIN carts[t] : carts[t][id] = 1

\* C10: checkout with a token that is not in the user token set (unknown or
\* admin) returns Not Authorized whatever the mode, and has consulted only
\* the user token set: not the payment modes, no cart, not the catalogue.
C10_CheckoutUnauthorizedFirst ==
    (request.handler = "cartCheckout" /\ request.sessionID \notin userTokens)
    => (response.kind = "NotAuthorized" /\ response.reads = <<"userTokens">>)

C10_Witness ==
    /\ request.handler = "cartCheckout"
    /\ request.sessionID \in adminTokens \ userTokens
    /\ request.mode = "cash"
    /\ \E t \in Tokens \ (userTokens \cup adminTokens) : TRUE
    /\ response.kind = "NotAuthorized"

ServedCheckout ==
    /\ request.handler = "cartCheckout"
    /\ request.sessionID \in userTokens

ClaimedPrice(id) == IF id \in DOMAIN productDB THEN productDB[id] ELSE 0

RECURSIVE ClaimedTotal(_, _)
ClaimedTotal(products, ids) ==
    IF ids = {} THEN 0
    ELSE LET id == CHOOSE i \in ids : TRUE
         IN  ClaimedPrice(id) * products[id] + ClaimedTotal(products, ids \ {id})

\* C12: checkout with a user token and a configured mode returns "nothing
\* payable" exactly when the sum of price * quantity over the cart is 0, and
\* otherwise a confirmation with that sum and the display name of the mode.
C12_CheckoutTotal ==
    (ServedCheckout /\ request.mode \in DOMAIN paymentModes.modes)
    => LET products == carts[request.sessionID]
           total == ClaimedTotal(products, DOMAIN products)
       IN  IF total = 0
           THEN response.kind = "NoAmountPayable"
           ELSE /\ response.kind = "redirect"
                /\ response.netTotal = total
                /\ response.portal = paymentModes.modes[request.mode]

\* What the checkout just served returns when it is made once more
CheckoutAgain == cartCheckoutResult(request.mode, request.sessionID)

\* C13: a checkout, whatever its outcome, leaves every cart, both token sets
\* and the catalogue as they were, so the same checkout made again returns
\* the same outcome.
C13_CheckoutChangesNothing ==
    [][request'.handler = "cartCheckout"
       => (/\ carts' = carts
           /\ userTokens' = userTokens
           /\ adminTokens' = adminTokens
           /\ productDB' = productDB
           /\ response' = CheckoutAgain')]_vars

C13_Witness ==
    /\ ServedCheckout
    /\ response.kind = "redirect"
    /\ response.netTotal = 2
    /\ adminTokens # {}

\* C14: checkout with a user token and a configured mode, on a cart that
\* holds a product ID with no catalogue entry, does not fail: that product
\* counts with price 0 and the other entries are still summed.
C14_MissingProductCountsZero ==
    (/\ ServedCheckout
     /\ request.mode \in DOMAIN paymentModes.modes
     /\ \E id \in DOMAIN carts[request.sessionID] : id \notin DOMAIN productDB)
    => /\ response.kind \in {"NoAmountPayable", "redirect"}
       /\ response.kind = "redirect" =>
             response.netTotal =
                ClaimedTotal(carts[request.sessionID],
                             DOMAIN carts[request.sessionID])

\* C16: a token that is in a role set with a cart bound to it stays in that
\* role set and keeps that same cart: no later request removes the token,
\* unbinds its cart or binds another Cart object to it.
C16_SessionsNeverRevoked ==
    [][\A t \in DOMAIN carts :
          /\ t \in userTokens => t \in userTokens'
          /\ t \in adminTokens => t \in adminTokens'
          /\ t \in DOMAIN carts'
          /\ request'.handler # "cartAdd" => carts'[t] = carts[t]]_vars

\* C17: between requests every token of the two role sets has a cart and
\* every key of the cart mapping is a token of a role set, so the cart
\* lookup of cartAdd and of cartCheckout never fails.
C17_EveryTokenHasCart ==
    /\ DOMAIN carts = userTokens \cup adminTokens
    /\ request.handler \in {"cartAdd", "cartCheckout"}
         => \/ request.sessionID \notin userTokens
            \/ request.sessionID \in DOMAIN carts

C17_Witness ==
    /\ ServedCheckout
    /\ response.kind = "redirect"
    /\ userTokens # {} /\ adminTokens # {}
    /\ userTokens \cap adminTokens = {}

\* C18: a login with an email and password that several records carry is
\* served by the first of them in list order alone: one token is issued, it
\* is put into the role set of that record, and the login puts nothing into
\* the other role set.
C18_FirstMatchOnly ==
    [][(request'.handler = "getSessionID" /\ response'.kind = "sessionID")
       => LET first == credentials[firstMatchFrom(1, request'.email,
                                                  request'.password)]
              token == response'.sessionID
          IN  IF first.isAdmin
              THEN /\ adminTokens' = adminTokens \cup {token}
                   /\ userTokens' = userTokens
              ELSE /\ userTokens' = userTokens \cup {token}
                   /\ adminTokens' = adminTokens]_vars

C18_Witness ==
    /\ ServedLogin
    /\ request.email = "a@x.com" /\ request.password = "pw"
    /\ Cardinality({i \in 1..Len(credentials) :
                       /\ credentials[i].email = request.email
                       /\ credentials[i].password = request.password}) = 2
    /\ response.sessionID \in userTokens \ adminTokens

\* C19: for a user token, cartAdd with quantity q >= 0 does to the session's
\* cart exactly what addItem(product, q) does, with q < 0 exactly what
\* removeItem(product, -q) does, and when nothing is raised the response is
\* the snapshot of the cart after the change.
C19_DispatchBySign ==
    [][(request'.handler = "cartAdd" /\ request'.sessionID \in userTokens)
       => LET t == request'.sessionID
              id == request'.product
              q == request'.quantity
              after == IF q >= 0 THEN addItem(carts[t], id, q)
                       ELSE removeItem(carts[t], id, 0 - q).products
              exc == IF q >= 0 THEN "None"
                     ELSE removeItem(carts[t], id, 0 - q).exc
          IN  /\ carts'[t] = after
              /\ IF exc = "None"
                 THEN response' = [kind |-> "cart", items |-> getCart(after)]
                 ELSE response' = Raised(exc)]_vars

C19_Witness ==
    /\ request.handler = "cartAdd"
    /\ request.sessionID \in userTokens
    /\ request.quantity = 0 - 1
    /\ response.kind = "cart"
    /\ carts[request.sessionID] # EmptyDict

\* C20: a cartAdd request with token t changes at most the cart of t: the
\* other carts, both token sets and the catalogue stay as they were; with a
\* token that is not a user token it returns the error payload and changes
\* no cart.
C20_CartAddIsolated ==
    [][request'.handler = "cartAdd"
       => /\ DOMAIN carts' = DOMAIN carts
          /\ \A t \in DOMAIN carts \ {request'.sessionID} : carts'[t] = carts[t]
          /\ userTokens' = userTokens
          /\ adminTokens' = adminTokens
          /\ productDB' = productDB
          /\ request'.sessionID \notin userTokens
               => (response' = UserNotFound /\ carts' = carts)]_vars

C20_Witness ==
    /\ request.handler = "cartAdd"
    /\ request.quantity = 1
    /\ response.kind = "cart"
    /\ \E t \in userTokens \ {request.sessionID} : carts[t] # EmptyDict

\* -------------------------------------------- the requests under RaceSpec
BothDone == \A i \in TaskIDs : race.tasks[i].pc = "done"

\* The cart of session 1 after the two requests run one after the other, in
\* the order the loop started them
OneAfterTheOther ==
    cartAddAlone(cartAddAlone(race.before, race.tasks[race.order[1]]),
                 race.tasks[race.order[2]])

\* C15 as claimed: while one cartAdd stands between reading a quantity and
\* storing it, the other request on that cart can take a step, so that one
\* of the two updates is lost.
C15_RequestsInterleave ==
    \A i \in TaskIDs : \A j \in TaskIDs \ {i} :
        (race.tasks[i].pc = "write" /\ race.tasks[j].pc = "pending")
        => ENABLED RaceStep(j)

\* C15 as amended: two cartAdd requests on one cart never interleave (the
\* handler has no await), and when both are done the cart is what the two
\* requests give run one after the other: no update is lost.
C15_NoLostUpdate ==
    /\ \E i \in TaskIDs : race.tasks[i].pc \in Idle
    /\ BothDone => carts[1] = OneAfterTheOther

C15_Witness ==
    /\ BothDone
    /\ \A i \in TaskIDs : /\ race.tasks[i].sessionID = 1
                           /\ race.tasks[i].product = 1
                           /\ race.tasks[i].quantity = 1
                           /\ race.tasks[i].exc = "None"
    /\ race.before = (1 :> 0)
    /\ carts[1] = (1 :> 2)

====
